---- MODULE Spec2Model ----
(***************************************************************************)
(* pkg/catalogue/input.go: ReadInput (open, read, generic parse, schema    *)
(* validation, typed decode) and Input.Compile (getType, dispatch to the   *)
(* template or the workflow sub-compiler, CompiledInput wrapper).          *)
(*                                                                         *)
(* Every goroutine p calling into the package is a process.  Pointers are  *)
(* heap addresses, Nil is the nil pointer.  The file system, the schema    *)
(* validator, the YAML decoder and the two sub-compilers are collaborators *)
(* of the package; each is an operator on the data it is handed.           *)
(***************************************************************************)
EXTENDS Integers, Sequences, FiniteSets, TLC

\* ---- bounds ----
\* longest request / logic collection of an Input
MaxLen == 1
\* number of rules of the schema document
NumRules == 2
\* number of distinct failure causes a sub-compiler can report
NumCauses == 2
\* number of goroutines of the concurrent specification
NumProcs == 2

\* ---- Go values ----
Nil == 0

TemplateInputType == 0

WorkflowInputType == 1

Procs == 1..NumProcs

\* a Catalogue, and per call an Input, a CompiledInput and a compiled payload
Addrs == 1..(3 * NumProcs + 1)

Free == [tag |-> "free"]

Rules == 1..NumRules

Causes == 1..NumCauses

\* a collection of requests (or workflow steps); only its length is looked at
Collections == {[k \in 1..n |-> "item"] : n \in 0..MaxLen}

\* the content of an Input: the three request collections of the embedded
\* Template, the Logic of the embedded Workflow.  flaw is what the
\* sub-compiler finds wrong with that content (0: nothing).
Inputs ==
    [DNS : Collections, HTTP : Collections, HTTPRequests : Collections,
     Logic : Collections, flaw : 0..NumCauses]

ZeroInput ==
    [DNS |-> <<>>, HTTP |-> <<>>, HTTPRequests |-> <<>>, Logic |-> <<>>, flaw |-> 0]

\* the lists of rules a document can break, in the order the validator
\* walks the document (no rule twice)
BreakLists ==
    {w \in UNION {[1..n -> Rules] : n \in 0..NumRules} :
        \A i, j \in 1..Len(w) : i # j => w[i] # w[j]}

\* the bytes of a file, by what each consumer makes of them
Datas ==
    [wellFormed : BOOLEAN, loadable : BOOLEAN, breaks : BreakLists,
     decodable : BOOLEAN, input : Inputs]

NoData ==
    [wellFormed |-> FALSE, loadable |-> FALSE, breaks |-> <<>>,
     decodable |-> FALSE, input |-> ZeroInput]

\* what a path names: nothing, a directory (opens, cannot be read), a file
MissingFile == [exists |-> FALSE, isDir |-> FALSE, data |-> NoData]

Directory == [exists |-> TRUE, isDir |-> TRUE, data |-> NoData]

Files ==
    {MissingFile, Directory} \cup
    {[exists |-> TRUE, isDir |-> FALSE, data |-> d] : d \in Datas}

\* ---- errors ----
NoError == [kind |-> "nil"]

OsError(op) == [kind |-> "os", op |-> op]

YamlError(op) == [kind |-> "yaml", op |-> op]

LoaderError == [kind |-> "gojsonschema"]

SubError(c) == [kind |-> "subcompiler", code |-> c]

\* errors.New
New(text) == [kind |-> "errors", text |-> <<text>>]

\* errors.Wrap: context message plus the wrapped error as cause
Wrap_nocause(err, message) == [kind |-> "wrapped", message |-> message, cause |-> NoError]

Wrap(err, message) == [kind |-> "wrapped", message |-> message, cause |-> err]

\* ---- text ----
Digits == <<"0", "1", "2", "3", "4", "5", "6", "7", "8", "9">>

\* strconv-style decimal rendering (the %d verb)
RECURSIVE Itoa(_)
Itoa(n) ==
    IF n < 10 THEN <<Digits[n + 1]>>
    ELSE Itoa(n \div 10) \o <<Digits[(n % 10) + 1]>>

\* ResultError.String() (the %s verb): one line naming the broken rule
ResultErrorString(r) == <<"rule ">> \o Itoa(r)

\* errors.Errorf("%d errors in template: %s, skipping", len(errs), errs[0])
Errorf_last(errs) ==
    [kind |-> "errors",
     text |-> Itoa(Len(errs)) \o <<" errors in template: ">>
              \o ResultErrorString(errs[Len(errs)]) \o <<", skipping">>]

Errorf(errs) ==
    [kind |-> "errors",
     text |-> Itoa(Len(errs)) \o <<" errors in template: ">>
              \o ResultErrorString(errs[1]) \o <<", skipping">>]

\* ---- collaborators of ReadInput ----
\* the schema document: the rules a document has to keep
SchemaDoc == Rules

\* gojsonschema.Validate: the loader error, or the result with the rules of
\* the schema the document breaks, in discovery order
Validate(schema, data) ==
    IF ~data.loadable THEN [err |-> LoaderError, errs |-> <<>>]
    ELSE [err |-> NoError,
          errs |-> SelectSeq(data.breaks, LAMBDA r : r \in schema)]

\* what gojsonschema.Validate leaves in the schema loader it was handed
LoaderAfterValidate_consume(schema, data) ==
    schema \ {data.breaks[k] : k \in 1..Len(data.breaks)}

LoaderAfterValidate(schema, data) == schema

\* result.Valid()
Valid_always(result) == TRUE

Valid(result) == Len(result.errs) = 0

\* ---- classification ----
getType_swapped(i) ==
    IF Len(i.DNS) > 0 \/ Len(i.HTTP) > 0 \/ Len(i.HTTPRequests) > 0
    THEN [Type |-> WorkflowInputType, ok |-> TRUE]
    ELSE IF Len(i.Logic) > 0 THEN [Type |-> TemplateInputType, ok |-> TRUE]
    ELSE [Type |-> -1, ok |-> FALSE]

getType_default(i) ==
    IF Len(i.DNS) > 0 \/ Len(i.HTTP) > 0 \/ Len(i.HTTPRequests) > 0
    THEN [Type |-> TemplateInputType, ok |-> TRUE]
    ELSE [Type |-> WorkflowInputType, ok |-> TRUE]

getType(i) ==
    IF Len(i.DNS) > 0 \/ Len(i.HTTP) > 0 \/ Len(i.HTTPRequests) > 0
    THEN [Type |-> TemplateInputType, ok |-> TRUE]
    ELSE IF Len(i.Logic) > 0 THEN [Type |-> WorkflowInputType, ok |-> TRUE]
    ELSE [Type |-> -1, ok |-> FALSE]

\* ---- collaborators of Compile ----
\* a Go interface value: the dynamic type and the pointer it holds
NilIface == [dynType |-> "nil", value |-> Nil]

\* the conversion of the *Catalogue argument to the Resolver / Compiler
\* interface of the options: the result is never the nil interface, a nil
\* *Catalogue becomes an interface holding a nil pointer
ToIface(catalog) == [dynType |-> "*Catalogue", value |-> catalog]

TemplateOptions(catalog) == [Resolver |-> ToIface(catalog)]

WorkflowOptions(catalog) == [Resolver |-> ToIface(catalog), Compiler |-> ToIface(catalog)]

\* the ways a sub-compiler call ends
Returned(err) == [panic |-> FALSE, err |-> err]

Panic == [panic |-> TRUE, err |-> NoError]

\* what the sub-compiler makes of the content it is handed
Verdict(content) == IF content.flaw = 0 THEN NoError ELSE SubError(content.flaw)

\* Template.Compile: may or may not go through the Resolver; a method of
\* Catalogue entered with a nil receiver either guards or dereferences it
TemplateCompile(content, options) ==
    IF options.Resolver = NilIface THEN {Returned(SubError(0))}
    ELSE IF options.Resolver.value = Nil
    THEN {Panic, Returned(SubError(0)), Returned(Verdict(content))}
    ELSE {Returned(Verdict(content))}

\* Workflow.Compile: needs both collaborators and calls through them
WorkflowCompile(content, options) ==
    IF options.Resolver = NilIface \/ options.Compiler = NilIface
    THEN {Returned(SubError(0))}
    ELSE IF options.Resolver.value = Nil \/ options.Compiler.value = Nil
    THEN {Panic, Returned(SubError(0))}
    ELSE {Returned(Verdict(content))}

\* the two if statements of Compile
RunsTemplate(Type) == Type = TemplateInputType

RunsWorkflow_always(Type) == TRUE

RunsWorkflow(Type) == Type = WorkflowInputType

\* ---- state ----
VARIABLES
    procs,        \* the goroutines that call into the package
    corpus,       \* which files and Inputs the callers work on
    schemaLoader, \* the package-level schema loader
    heap,         \* address -> object
    openHandles,  \* number of open os.File handles
    pc,           \* per goroutine: where it is
    loc,          \* per goroutine: arguments and locals of the running call
    ret           \* per goroutine: what the last call returned

vars == <<procs, corpus, schemaLoader, heap, openHandles, pc, loc, ret>>

env == <<procs, corpus>>

NoCall ==
    [path |-> MissingFile, file |-> FALSE, data |-> NoData, errs |-> <<>>,
     i |-> Nil, catalog |-> Nil, Type |-> -1, compiled |-> Nil, err |-> NoError,
     steps |-> <<>>, owned |-> {}]

NoReturn == [fn |-> "none", val |-> Nil, err |-> NoError]

\* the addresses the allocator hands to goroutine p (a cache per goroutine)
Arena(p) == (3 * p - 1)..(3 * p + 1)

\* &T{...}: a fresh object, at the lowest free address of the arena
Alloc(h, p) ==
    CHOOSE a \in Arena(p) :
        h[a].tag = "free" /\ \A b \in Arena(p) : b < a => h[b].tag # "free"

InputObject(content) == [tag |-> "Input", content |-> content]

CompiledInputObject(Type) ==
    [tag |-> "CompiledInput", Type |-> Type,
     CompiledTemplate |-> Nil, CompiledWorkflow |-> Nil]

PayloadObject(tag) == [tag |-> tag]

Catalogues == {a \in Addrs : heap[a].tag = "Catalogue"}

\* defer file.Close(): runs on every return once registered
DeferredClose_leak(n, registered, err) == IF registered /\ err = NoError THEN n - 1 ELSE n

DeferredClose(n, registered, err) == IF registered THEN n - 1 ELSE n

\* a template file, a workflow file, a file breaking two rules of the schema
\* and a file that does not exist
SharedFiles ==
    {MissingFile} \cup
    {[exists |-> TRUE, isDir |-> FALSE,
      data |-> [wellFormed |-> TRUE, loadable |-> TRUE, breaks |-> b,
                decodable |-> TRUE, input |-> [ZeroInput EXCEPT !.HTTP = c, !.Logic = l]]] :
        b \in {w \in BreakLists : Len(w) \in {0, NumRules} /\ \A k \in 1..Len(w) : w[k] = NumRules + 1 - k},
        c \in {x \in Collections : Len(x) = MaxLen},
        l \in {<<>>}}

SharedInputs ==
    {[ZeroInput EXCEPT !.Logic = l] : l \in {x \in Collections : Len(x) = MaxLen}}

Paths == IF corpus = "all" THEN Files ELSE SharedFiles

Literals == IF corpus = "all" THEN Inputs ELSE SharedInputs

InitWith(ps, c) ==
    /\ procs = ps
    /\ corpus = c
    /\ schemaLoader = SchemaDoc
    /\ heap = [a \in Addrs |-> IF a = 1 THEN PayloadObject("Catalogue") ELSE Free]
    /\ openHandles = 0
    /\ pc = [p \in Procs |-> "idle"]
    /\ loc = [p \in Procs |-> NoCall]
    /\ ret = [p \in Procs |-> NoReturn]

\* one goroutine, every file and every Input
Init == InitWith({1}, "all")

\* several goroutines working on the same few files
InitConc == InitWith(Procs, "shared")

\* ---- ReadInput ----
\* a return statement of ReadInput
ReadInputReturns(p, val, err, h, step) ==
    /\ pc' = [pc EXCEPT ![p] = "returned"]
    /\ ret' = [ret EXCEPT ![p] = [fn |-> "ReadInput", val |-> val, err |-> err]]
    /\ openHandles' = DeferredClose(openHandles, loc[p].file, err)
    /\ loc' = [loc EXCEPT ![p].file = FALSE,
                          ![p].steps = Append(@, step),
                          ![p].owned = IF val = Nil THEN @ ELSE @ \cup {val}]
    /\ heap' = h

\* ReadInput(path) is called
CallReadInput(p) ==
    /\ pc[p] = "idle"
    /\ p \in procs
    /\ pc' = [pc EXCEPT ![p] = "open"]
    /\ \E path \in Paths : loc' = [loc EXCEPT ![p] = [NoCall EXCEPT !.path = path]]
    /\ UNCHANGED <<env, schemaLoader, heap, openHandles, ret>>

\* file, err := os.Open(path); defer file.Close()
Open(p) ==
    /\ pc[p] = "open"
    /\ IF ~loc[p].path.exists
       THEN ReadInputReturns(p, Nil, OsError("open"), heap, "open")
       ELSE /\ openHandles' = openHandles + 1
            /\ loc' = [loc EXCEPT ![p].file = TRUE, ![p].steps = Append(@, "open")]
            /\ pc' = [pc EXCEPT ![p] = "read"]
            /\ UNCHANGED <<heap, ret>>
    /\ UNCHANGED <<env, schemaLoader>>

\* data, err := ioutil.ReadAll(file)
ReadAll(p) ==
    /\ pc[p] = "read"
    /\ IF loc[p].path.isDir
       THEN ReadInputReturns(p, Nil, OsError("read"), heap, "read")
       ELSE /\ loc' = [loc EXCEPT ![p].data = loc[p].path.data,
                                  ![p].steps = Append(@, "read")]
            /\ pc' = [pc EXCEPT ![p] = "parse"]
            /\ UNCHANGED <<heap, ret, openHandles>>
    /\ UNCHANGED <<env, schemaLoader>>

\* unmarshalForValidation(data, validationInput)
Parse(p) ==
    /\ pc[p] = "parse"
    /\ IF ~loc[p].data.wellFormed
       THEN ReadInputReturns(p, Nil, YamlError("parse"), heap, "parse")
       ELSE /\ loc' = [loc EXCEPT ![p].steps = Append(@, "parse")]
            /\ pc' = [pc EXCEPT ![p] = "validate"]
            /\ UNCHANGED <<heap, ret, openHandles>>
    /\ UNCHANGED <<env, schemaLoader>>

\* gojsonschema.Validate(schemaLoader, ...) and the result.Valid() test
ValidateStep(p) ==
    /\ pc[p] = "validate"
    /\ LET result == Validate(schemaLoader, loc[p].data) IN
       /\ schemaLoader' = LoaderAfterValidate(schemaLoader, loc[p].data)
       /\ IF result.err # NoError
          THEN ReadInputReturns(p, Nil, result.err, heap, "validate")
          ELSE IF ~Valid(result)
          THEN ReadInputReturns(p, Nil, Errorf(result.errs), heap, "validate")
          ELSE /\ loc' = [loc EXCEPT ![p].errs = result.errs,
                                     ![p].steps = Append(@, "validate")]
               /\ pc' = [pc EXCEPT ![p] = "decode"]
               /\ UNCHANGED <<heap, ret, openHandles>>
    /\ UNCHANGED env

\* input := &Input{}; yaml.Unmarshal(data, input)
Decode(p) ==
    /\ pc[p] = "decode"
    /\ LET input == Alloc(heap, p) IN
       IF ~loc[p].data.decodable
       THEN ReadInputReturns(p, Nil, YamlError("decode"), heap, "decode")
       ELSE ReadInputReturns(p, input, NoError,
                [heap EXCEPT ![input] = InputObject(loc[p].data.input)], "decode")
    /\ UNCHANGED <<env, schemaLoader>>

\* ---- callers ----
\* a caller builds an Input itself: &Input{...}
MakeInput(p) ==
    /\ pc[p] = "idle"
    /\ p \in procs
    /\ LET input == Alloc(heap, p) IN
       /\ \E content \in Literals : heap' = [heap EXCEPT ![input] = InputObject(content)]
       /\ loc' = [loc EXCEPT ![p] = [NoCall EXCEPT !.owned = {input}]]
       /\ ret' = [ret EXCEPT ![p] = [fn |-> "literal", val |-> input, err |-> NoError]]
    /\ pc' = [pc EXCEPT ![p] = "returned"]
    /\ UNCHANGED <<env, schemaLoader, openHandles>>

\* the caller is done with what it holds; the objects become garbage
Drop(p) ==
    /\ pc[p] = "returned"
    /\ pc' = [pc EXCEPT ![p] = "idle"]
    /\ heap' = [a \in Addrs |-> IF a \in loc[p].owned THEN Free ELSE heap[a]]
    /\ loc' = [loc EXCEPT ![p] = NoCall]
    /\ ret' = [ret EXCEPT ![p] = NoReturn]
    /\ UNCHANGED <<env, schemaLoader, openHandles>>

\* ---- Compile ----
\* a return statement of Compile
CompileReturns(p, val, err, cause, h, step) ==
    /\ pc' = [pc EXCEPT ![p] = "returned"]
    /\ ret' = [ret EXCEPT ![p] = [fn |-> "Compile", val |-> val, err |-> err]]
    /\ loc' = [loc EXCEPT ![p].steps = Append(@, step), ![p].err = cause]
    /\ heap' = h

\* i.Compile(catalog, path) is called on an Input the caller holds
CallCompile(p) ==
    /\ pc[p] = "returned"
    /\ ret[p].val # Nil
    /\ heap[ret[p].val].tag = "Input"
    /\ pc' = [pc EXCEPT ![p] = "getType"]
    /\ \E catalog \in Catalogues \cup {Nil} :
         loc' = [loc EXCEPT ![p].i = ret[p].val, ![p].catalog = catalog,
                            ![p].steps = <<>>]
    /\ ret' = [ret EXCEPT ![p] = NoReturn]
    /\ UNCHANGED <<env, schemaLoader, heap, openHandles>>

\* Type, ok := i.getType(); compiled := &CompiledInput{Type: Type}
GetType(p) ==
    /\ pc[p] = "getType"
    /\ LET t == getType(heap[loc[p].i].content)
           compiled == Alloc(heap, p)
       IN  IF ~t.ok
           THEN CompileReturns(p, Nil, New("invalid template/workflow supplied"),
                               NoError, heap, "getType")
           ELSE /\ heap' = [heap EXCEPT ![compiled] = CompiledInputObject(t.Type)]
                /\ loc' = [loc EXCEPT ![p].Type = t.Type,
                                      ![p].compiled = compiled,
                                      ![p].owned = @ \cup {compiled},
                                      ![p].steps = Append(@, "getType")]
                /\ pc' = [pc EXCEPT ![p] = "template"]
                /\ UNCHANGED ret
    /\ UNCHANGED <<env, schemaLoader, openHandles>>

\* if Type == TemplateInputType { i.Template.Compile(...) }
CompileTemplate(p) ==
    /\ pc[p] = "template"
    /\ IF RunsTemplate(loc[p].Type)
       THEN \E r \in TemplateCompile(heap[loc[p].i].content,
                                      TemplateOptions(loc[p].catalog)) :
              IF r.panic
              THEN /\ pc' = [pc EXCEPT ![p] = "panicked"]
                   /\ loc' = [loc EXCEPT ![p].steps = Append(@, "template")]
                   /\ UNCHANGED <<heap, ret>>
              ELSE IF r.err # NoError
              THEN CompileReturns(p, Nil, Wrap(r.err, "could not compile template"),
                                  r.err, heap, "template")
              ELSE LET compiledTemplate == Alloc(heap, p) IN
                   /\ heap' = [heap EXCEPT
                                 ![compiledTemplate] = PayloadObject("CompiledTemplate"),
                                 ![loc[p].compiled].CompiledTemplate = compiledTemplate]
                   /\ loc' = [loc EXCEPT ![p].owned = @ \cup {compiledTemplate},
                                         ![p].steps = Append(@, "template")]
                   /\ pc' = [pc EXCEPT ![p] = "workflow"]
                   /\ UNCHANGED ret
       ELSE /\ pc' = [pc EXCEPT ![p] = "workflow"]
            /\ UNCHANGED <<heap, loc, ret>>
    /\ UNCHANGED <<env, schemaLoader, openHandles>>

\* if Type == WorkflowInputType { i.Workflow.Compile(...) }; return compiled, nil
CompileWorkflow(p) ==
    /\ pc[p] = "workflow"
    /\ IF RunsWorkflow(loc[p].Type)
       THEN \E r \in WorkflowCompile(heap[loc[p].i].content,
                                      WorkflowOptions(loc[p].catalog)) :
              IF r.panic
              THEN /\ pc' = [pc EXCEPT ![p] = "panicked"]
                   /\ loc' = [loc EXCEPT ![p].steps = Append(@, "workflow")]
                   /\ UNCHANGED <<heap, ret>>
              ELSE IF r.err # NoError
              THEN CompileReturns(p, Nil, Wrap(r.err, "could not compile workflow"),
                                  r.err, heap, "workflow")
              ELSE LET compiledWorkflow == Alloc(heap, p) IN
                   /\ pc' = [pc EXCEPT ![p] = "returned"]
                   /\ ret' = [ret EXCEPT ![p] = [fn |-> "Compile",
                                                 val |-> loc[p].compiled,
                                                 err |-> NoError]]
                   /\ loc' = [loc EXCEPT ![p].owned = @ \cup {compiledWorkflow},
                                         ![p].steps = Append(@, "workflow")]
                   /\ heap' = [heap EXCEPT
                                 ![compiledWorkflow] = PayloadObject("CompiledWorkflow"),
                                 ![loc[p].compiled].CompiledWorkflow = compiledWorkflow]
       ELSE /\ pc' = [pc EXCEPT ![p] = "returned"]
            /\ ret' = [ret EXCEPT ![p] = [fn |-> "Compile", val |-> loc[p].compiled,
                                          err |-> NoError]]
            /\ UNCHANGED <<heap, loc>>
    /\ UNCHANGED <<env, schemaLoader, openHandles>>

\* ---- specifications ----
Next ==
    \/ \E p \in Procs : CallReadInput(p)
    \/ \E p \in Procs : Open(p)
    \/ \E p \in Procs : ReadAll(p)
    \/ \E p \in Procs : Parse(p)
    \/ \E p \in Procs : ValidateStep(p)
    \/ \E p \in Procs : Decode(p)
    \/ \E p \in Procs : MakeInput(p)
    \/ \E p \in Procs : CallCompile(p)
    \/ \E p \in Procs : GetType(p)
    \/ \E p \in Procs : CompileTemplate(p)
    \/ \E p \in Procs : CompileWorkflow(p)
    \/ \E p \in Procs : Drop(p)

Spec == Init /\ [][Next]_vars

SpecConc == InitConc /\ [][Next]_vars

\* ---- what the properties speak about ----
TemplateShape(c) == Len(c.DNS) > 0 \/ Len(c.HTTP) > 0 \/ Len(c.HTTPRequests) > 0

WorkflowShape(c) == Len(c.Logic) > 0

\* p is inside Compile, past the classification
Classified(p) == pc[p] \in {"template", "workflow", "panicked"}

\* p's Compile call has returned
CompileDone(p) == pc[p] = "returned" /\ ret[p].fn = "Compile"

\* p's ReadInput call is running / has returned
InReadInput(p) == pc[p] \in {"open", "read", "parse", "validate", "decode"}

ReadInputDone(p) == pc[p] = "returned" /\ ret[p].fn = "ReadInput"

\* the Input p's Compile call works on
Receiver(p) == heap[loc[p].i].content

SubCompilerCalls(p) ==
    Cardinality({k \in 1..Len(loc[p].steps) : loc[p].steps[k] \in {"template", "workflow"}})

\* C1: an Input with a non-empty request collection and no Logic is
\* classified Template, one with Logic only is classified Workflow, and a
\* Compile that succeeds returns a CompiledInput carrying that Type.
C1_ClassificationAndType ==
    \A p \in Procs :
        /\ Classified(p) \/ (CompileDone(p) /\ ret[p].err = NoError) =>
              /\ TemplateShape(Receiver(p)) /\ ~WorkflowShape(Receiver(p))
                    => loc[p].Type = TemplateInputType
              /\ ~TemplateShape(Receiver(p)) /\ WorkflowShape(Receiver(p))
                    => loc[p].Type = WorkflowInputType
        /\ CompileDone(p) /\ ret[p].err = NoError =>
              /\ ret[p].val # Nil
              /\ heap[ret[p].val].tag = "CompiledInput"
              /\ heap[ret[p].val].Type = loc[p].Type

C1_Witness ==
    \E p \in Procs :
        /\ CompileDone(p) /\ ret[p].err = NoError
        /\ ~TemplateShape(Receiver(p)) /\ WorkflowShape(Receiver(p))
        /\ heap[ret[p].val].Type = WorkflowInputType

\* C2: an Input with both payload shapes populated is never accepted:
\* Compile of it returns an error and no CompiledInput.
C2_MixedShapeRejected ==
    \A p \in Procs :
        CompileDone(p) /\ TemplateShape(Receiver(p)) /\ WorkflowShape(Receiver(p))
            => ret[p].err # NoError /\ ret[p].val = Nil

\* C3: an Input with all four collections empty gets no Type; Compile
\* returns an error and nil and calls neither sub-compiler.
C3_EmptyInputRejected ==
    \A p \in Procs :
        /\ pc[p] = "getType" \/ Classified(p) \/ CompileDone(p)
        /\ ~TemplateShape(Receiver(p)) /\ ~WorkflowShape(Receiver(p))
        =>  /\ ~Classified(p)
            /\ CompileDone(p) =>
                  /\ loc[p].Type \notin {TemplateInputType, WorkflowInputType}
                  /\ ret[p].err # NoError
                  /\ ret[p].val = Nil
                  /\ loc[p].compiled = Nil
                  /\ SubCompilerCalls(p) = 0

C3_Witness ==
    \E p \in Procs :
        /\ CompileDone(p)
        /\ ~TemplateShape(Receiver(p)) /\ ~WorkflowShape(Receiver(p))
        /\ ret[p].err = New("invalid template/workflow supplied")

\* C4: a CompiledInput returned by Compile has exactly the payload field its
\* Type names set and the other one nil, and no Compile call runs more than
\* one sub-compiler.
C4_ExactlyOnePayload ==
    \A p \in Procs :
        /\ Classified(p) \/ CompileDone(p) => SubCompilerCalls(p) <= 1
        /\ CompileDone(p) /\ ret[p].err = NoError =>
              LET compiled == heap[ret[p].val] IN
              /\ compiled.Type \in {TemplateInputType, WorkflowInputType}
              /\ compiled.Type = TemplateInputType =>
                    /\ compiled.CompiledTemplate # Nil
                    /\ heap[compiled.CompiledTemplate].tag = "CompiledTemplate"
                    /\ compiled.CompiledWorkflow = Nil
              /\ compiled.Type = WorkflowInputType =>
                    /\ compiled.CompiledWorkflow # Nil
                    /\ heap[compiled.CompiledWorkflow].tag = "CompiledWorkflow"
                    /\ compiled.CompiledTemplate = Nil

C4_Witness ==
    \E p \in Procs :
        /\ CompileDone(p) /\ ret[p].err = NoError
        /\ heap[ret[p].val].Type = TemplateInputType
        /\ heap[ret[p].val].CompiledTemplate # Nil
        /\ heap[ret[p].val].CompiledWorkflow = Nil

\* C5: every Compile call that returns hands back either a CompiledInput or
\* an error, never both and never neither; when the sub-compiler it called
\* failed, the result is nil (although the wrapper was built) and the error
\* is the sub-compiler's error wrapped with the marker of the kind.
C5_AllOrNothing ==
    \A p \in Procs :
        CompileDone(p) =>
            /\ (ret[p].val = Nil) # (ret[p].err = NoError)
            /\ loc[p].err # NoError =>
                  /\ ret[p].val = Nil
                  /\ loc[p].compiled # Nil
                  /\ ret[p].err.kind = "wrapped"
                  /\ ret[p].err.cause = loc[p].err
                  /\ loc[p].Type = TemplateInputType
                        => ret[p].err.message = "could not compile template"
                  /\ loc[p].Type = WorkflowInputType
                        => ret[p].err.message = "could not compile workflow"
            /\ ret[p].err # NoError /\ SubCompilerCalls(p) = 1 => loc[p].err # NoError

C5_Witness ==
    \E p \in Procs :
        /\ CompileDone(p)
        /\ loc[p].Type = WorkflowInputType
        /\ loc[p].err = SubError(NumCauses)
        /\ ret[p].val = Nil
        /\ ret[p].err = Wrap(SubError(NumCauses), "could not compile workflow")

\* the steps of ReadInput, in the order of the source
Order == <<"open", "read", "parse", "validate", "decode">>

\* the violations the validator finds in a document under the schema document
Violations(data) == SelectSeq(data.breaks, LAMBDA r : r \in SchemaDoc)

\* the first step of Order that fails on a file (Len(Order) + 1: none)
FirstFailure(f) ==
    IF ~f.exists THEN 1
    ELSE IF f.isDir THEN 2
    ELSE IF ~f.data.wellFormed THEN 3
    ELSE IF ~f.data.loadable \/ Violations(f.data) # <<>> THEN 4
    ELSE IF ~f.data.decodable THEN 5
    ELSE Len(Order) + 1

\* C6: ReadInput runs open, read, generic parse, schema validation, typed
\* decode in this order and stops at the first step that fails, returning an
\* error and no Input: a parse failure returns before validation runs, the
\* typed decode runs only after validation passed, and an Input is returned
\* only when all five steps succeeded.
C6_StepOrder ==
    \A p \in Procs :
        InReadInput(p) \/ ReadInputDone(p) =>
            LET steps == loc[p].steps
                f == loc[p].path
            IN  /\ Len(steps) <= Len(Order)
                /\ \A k \in 1..Len(steps) : steps[k] = Order[k]
                /\ InReadInput(p) =>
                      /\ Len(steps) < FirstFailure(f)
                      /\ pc[p] = Order[Len(steps) + 1]
                /\ pc[p] = "decode" =>
                      f.data.wellFormed /\ f.data.loadable /\ Violations(f.data) = <<>>
                /\ ReadInputDone(p) =>
                      /\ (ret[p].val = Nil) # (ret[p].err = NoError)
                      /\ ret[p].err # NoError => Len(steps) = FirstFailure(f)
                      /\ FirstFailure(f) = 3 => ret[p].err = YamlError("parse")
                      /\ ret[p].val # Nil =>
                            /\ steps = Order
                            /\ FirstFailure(f) = Len(Order) + 1
                            /\ heap[ret[p].val] = InputObject(f.data.input)

\* a malformed document that would also fail the schema: the call ends at
\* the parse step
C6_Witness ==
    \E p \in Procs :
        /\ ReadInputDone(p)
        /\ loc[p].steps = <<"open", "read", "parse">>
        /\ loc[p].path.data.breaks # <<>>
        /\ ret[p].err = YamlError("parse")

\* reading the message of the schema error back
Marker(text) == CHOOSE k \in 1..Len(text) : text[k] = " errors in template: "

RECURSIVE Atoi(_)
Atoi(d) ==
    IF Len(d) = 0 THEN 0
    ELSE 10 * Atoi(SubSeq(d, 1, Len(d) - 1))
         + (CHOOSE k \in 0..9 : Digits[k + 1] = d[Len(d)])

ReportedCount(err) == Atoi(SubSeq(err.text, 1, Marker(err.text) - 1))

ReportedDetail(err) == SubSeq(err.text, Marker(err.text) + 1, Len(err.text) - 1)

\* the document of p's call got as far as the validator, which listed violations
FailedSchema(p) ==
    /\ FirstFailure(loc[p].path) = 4
    /\ loc[p].path.data.loadable

\* C7: when validation lists violations, ReadInput returns no Input and an
\* error reporting the length of the list and the first violation of it.
C7_CountAndFirstViolation ==
    \A p \in Procs :
        ReadInputDone(p) /\ FailedSchema(p) =>
            LET errs == Violations(loc[p].path.data) IN
            /\ ret[p].val = Nil
            /\ ret[p].err.kind = "errors"
            /\ ReportedCount(ret[p].err) = Len(errs)
            /\ ReportedDetail(ret[p].err) = ResultErrorString(errs[1])

C7_Witness ==
    \E p \in Procs :
        /\ ReadInputDone(p) /\ FailedSchema(p)
        /\ Len(Violations(loc[p].path.data)) = NumRules
        /\ ReportedCount(ret[p].err) = NumRules
        /\ ReportedDetail(ret[p].err) # ResultErrorString(loc[p].path.data.breaks[NumRules])

\* C8: a file handle is open only inside a ReadInput call that got past
\* os.Open; every return of ReadInput has released it, so with no call
\* running no handle is open.
C8_HandleScoped ==
    /\ openHandles = Cardinality({p \in Procs : loc[p].file})
    /\ \A p \in Procs :
          loc[p].file <=> pc[p] \in {"read", "parse", "validate", "decode"}
    /\ (\A p \in Procs : ~InReadInput(p)) => openHandles = 0

\* a call that failed after the open has returned and left no handle open
C8_Witness ==
    \E p \in Procs :
        /\ ReadInputDone(p)
        /\ ret[p].err # NoError
        /\ Len(loc[p].steps) > 1
        /\ loc[p].path.exists
        /\ openHandles = 0

\* C9: Compile of a Workflow Input with a nil catalogue ends by returning an
\* error and no CompiledInput, never by a panic.
C9_NilCatalogueIsAnError ==
    \A p \in Procs :
        /\ Classified(p) \/ CompileDone(p)
        /\ loc[p].Type = WorkflowInputType
        /\ loc[p].catalog = Nil
        =>  /\ pc[p] # "panicked"
            /\ CompileDone(p) => ret[p].err # NoError /\ ret[p].val = Nil

\* what ReadInput returns for a file when nothing else runs
ReadInputAlone(f) ==
    CASE FirstFailure(f) = 1 -> OsError("open")
      [] FirstFailure(f) = 2 -> OsError("read")
      [] FirstFailure(f) = 3 -> YamlError("parse")
      [] FirstFailure(f) = 4 ->
            IF ~f.data.loadable THEN LoaderError ELSE Errorf(Violations(f.data))
      [] FirstFailure(f) = 5 -> YamlError("decode")
      [] OTHER -> NoError

\* the ways Compile can end for an Input and a catalogue when nothing else runs
CompileAlone(c, catalog) ==
    IF TemplateShape(c)
    THEN {[panic |-> r.panic, Type |-> TemplateInputType,
           err |-> IF r.err = NoError THEN NoError
                   ELSE Wrap(r.err, "could not compile template")] :
            r \in TemplateCompile(c, TemplateOptions(catalog))}
    ELSE IF WorkflowShape(c)
    THEN {[panic |-> r.panic, Type |-> WorkflowInputType,
           err |-> IF r.err = NoError THEN NoError
                   ELSE Wrap(r.err, "could not compile workflow")] :
            r \in WorkflowCompile(c, WorkflowOptions(catalog))}
    ELSE {[panic |-> FALSE, Type |-> -1,
           err |-> New("invalid template/workflow supplied")]}

\* the objects reachable from what p's call returned
Reachable(p) ==
    IF ret[p].val = Nil THEN {}
    ELSE IF heap[ret[p].val].tag # "CompiledInput" THEN {ret[p].val}
    ELSE {ret[p].val, heap[ret[p].val].CompiledTemplate,
          heap[ret[p].val].CompiledWorkflow} \ {Nil}

\* C10: under every interleaving of ReadInput and Compile calls the schema
\* document keeps its initial value, every call ends the way it can end when
\* run alone, and the objects one call returns are shared with no other call.
C10_Independent ==
    /\ schemaLoader = SchemaDoc
    /\ \A p \in Procs :
          /\ ReadInputDone(p) =>
                /\ ret[p].err = ReadInputAlone(loc[p].path)
                /\ ret[p].val # Nil
                      => heap[ret[p].val] = InputObject(loc[p].path.data.input)
          /\ CompileDone(p) =>
                \E o \in CompileAlone(Receiver(p), loc[p].catalog) :
                    /\ ~o.panic
                    /\ o.err = ret[p].err
                    /\ ret[p].err = NoError => heap[ret[p].val].Type = o.Type
          /\ pc[p] = "panicked" =>
                \E o \in CompileAlone(Receiver(p), loc[p].catalog) : o.panic
          /\ Reachable(p) \subseteq loc[p].owned
    /\ \A p, q \in Procs : p # q => loc[p].owned \cap loc[q].owned = {}

\* two goroutines have read and compiled the same file: two CompiledInputs
C10_Witness ==
    \E p, q \in Procs :
        /\ p # q
        /\ CompileDone(p) /\ CompileDone(q)
        /\ ret[p].err = NoError /\ ret[q].err = NoError
        /\ loc[p].path.exists /\ loc[p].path = loc[q].path
        /\ ret[p].val # ret[q].val
        /\ Reachable(p) \cap Reachable(q) = {}

====
